---- MODULE Spec2Model ----
(***************************************************************************)
(* gitmirror (cmd/gitmirror/main.go): a pool of five goroutines receives   *)
(* repository descriptors over one unbuffered channel and runs, for each,  *)
(* stat FETCH_HEAD -> [probe fetch] -> [RemoveAll, clone] -> fetch ->       *)
(* [addRemote, push].  The goroutines are anonymous and identical, so the  *)
(* pool is a bag of goroutine states.                                      *)
(***************************************************************************)
EXTENDS Bags, FiniteSets, Integers, Sequences, TLC

VARIABLES
    repos,       \* m.repos: the descriptors, in submission order
    flagMirror,  \* *flagMirror
    start,       \* whether FETCH_HEAD was in each localRoot when the run began
    cache,       \* what is on disk at each localRoot
    remotes,     \* content of the files under localRoot/remotes, by file name
    idx,         \* position of the send loop in m.repos
    closed,      \* close(c) has been executed
    mainPc,      \* where main is: "send", "returned" (initRepos returned)
    status,      \* the process: "running", "exited", "crashed"
    pool,        \* the goroutines started by initRepos
    hist,        \* per descriptor, the stages run for it so far
    pushed,      \* per descriptor, the remote names handed to git push
    cmds,        \* per descriptor, the subprocess of the stage in progress
    runs         \* the run in progress and what earlier runs achieved

vars == <<repos, flagMirror, start, cache, remotes, idx, closed, mainPc, status, pool,
         hist, pushed, cmds, runs>>

\* ---------------------------------------------------------------- bounds
MaxRepos == 2
MaxPoolRepos == 6

\* ------------------------------------------------------------- constants
\* const max = 5
max == 5

\* ---------------------------------------------------------------- strings
\* A connection string is a sequence of one-character strings.
GoodDest == <<"g", "@", "b", ":", "a">>
BareDest == <<"b", "/", "a">>
Dests == {GoodDest, BareDest}

\* index of the first sep in s at or after position i, 0 when there is none
RECURSIVE IndexFrom(_, _, _)
IndexFrom(s, sep, i) ==
    IF i > Len(s) THEN 0
    ELSE IF s[i] = sep THEN i
    ELSE IndexFrom(s, sep, i + 1)

\* strings.Split(s, sep) for a one-character sep
RECURSIVE Split(_, _)
Split(s, sep) ==
    LET k == IndexFrom(s, sep, 1)
    IN  IF k = 0 THEN <<s>>
        ELSE <<SubSeq(s, 1, k - 1)>> \o Split(SubSeq(s, k + 1, Len(s)), sep)

\* nameAt := strings.Split(r.destination, "@"); nameAt[1] is out of range
\* when the destination holds no "@"
NamePanics(dest) == Len(Split(dest, "@")) < 2

\* name := strings.Split(nameAt[1], ":")[0]
RemoteName(dest) == Split(Split(dest, "@")[2], ":")[1]

\* the registration file written by addRemote
RemoteFile(dest) ==
    <<"URL: ", dest, "\n",
      "Push: +refs/heads/*:refs/heads/*\n",
      "Push: +refs/tags/*:refs/tags/*\n">>

\* ------------------------------------------------------------------ paths
\* A path is a sequence of one-character strings with "/" between its
\* elements; a cleaned path is kept as the sequence of its elements.
\* filepath.Clean on the elements: empty elements and "." go, ".." takes
\* the element before it away (and stays when there is none)
RECURSIVE Clean(_, _)
Clean(elems, out) ==
    IF elems = <<>> THEN out
    ELSE LET e == Head(elems)
             rest == Tail(elems)
         IN  IF e = <<>> \/ e = <<".">> THEN Clean(rest, out)
             ELSE IF e = <<".", ".">> /\ out # <<>> /\ out[Len(out)] # <<".", ".">>
                  THEN Clean(rest, SubSeq(out, 1, Len(out) - 1))
             ELSE Clean(rest, Append(out, e))

\* filepath.Join(dir, name)
Join(dir, name) == Clean(Split(dir \o <<"/">> \o name, "/"), <<>>)

\* the path q lies inside the tree of the path p
Within(p, q) == Len(q) > Len(p) /\ SubSeq(q, 1, Len(p)) = p

\* two localRoots name the same tree or one lies inside the other
Overlap(p, q) == p = q \/ Within(p, q) \/ Within(q, p)

\* ------------------------------------------------------------- goroutines
\* a goroutine blocked in `for r := range rc`, holding no descriptor
Idle == [pc |-> "recv", r |-> 0, err |-> FALSE, canReuse |-> FALSE, last |-> "none"]

\* a spawn loop that runs once too often (`i <= max`)
SpawnedOneMore == [w \in {Idle} |-> max + 1]

\* the goroutines spawned by `for i := 0; i < max; i++ { go func ... }`
Spawned == [w \in {Idle} |-> max]

Workers == BagToSet(pool)

Replace(w, w2) == (pool (-) SetToBag({w})) (+) SetToBag({w2})

Running == status = "running"

Root(w) == repos[w.r].root

\* what is on disk at a localRoot:
\*   "absent"  nothing there
\*   "dir"     a directory that is not a repository
\*   "repo"    a bare mirror without FETCH_HEAD
\*   "marked"  a bare mirror with FETCH_HEAD
CacheStates == {"absent", "dir", "repo", "marked"}

\* the localRoots of the run
Roots == {repos[i].root : i \in DOMAIN repos}

\* the trees after a stage left c at the localRoot p: what lies inside a
\* tree that is gone is gone, and what is created inside a missing tree
\* creates the directories above it
CacheAfter(p, c) ==
    [q \in DOMAIN cache |->
        IF q = p THEN c
        ELSE IF Within(p, q) /\ c = "absent" THEN "absent"
        ELSE IF Within(q, p) /\ cache[q] = "absent" /\ c # "absent" THEN "dir"
        ELSE cache[q]]

\* the registration files after a stage left c and rem at the localRoot p
RemotesAfter(p, c, rem) ==
    [q \in DOMAIN remotes |->
        IF q = p THEN rem
        ELSE IF Within(p, q) /\ c = "absent" THEN {}
        ELSE remotes[q]]

\* ----------------------------------------------------- subprocess runner
\* results of clone(r): git clone --mirror succeeds only into a free path
clone(c) == {"fail"} \cup (IF c = "absent" THEN {"ok"} ELSE {})

\* results of fetch(r): git fetch --prune origin needs a repository in cmd.Dir
fetch(c) == {"fail"} \cup (IF c \in {"repo", "marked"} THEN {"ok"} ELSE {})

\* results of push(r): the name is derived first, then git push runs in cmd.Dir
push(c, dest) ==
    IF NamePanics(dest) THEN {"panic"}
    ELSE {"fail"} \cup (IF c \in {"repo", "marked"} THEN {"ok"} ELSE {})

\* results of addRemote(r): MkdirAll may fail (plain return), then the name
\* is derived, then WriteFile may fail (its error is dropped)
addRemote(dest) ==
    {"mkdirfail"} \cup (IF NamePanics(dest) THEN {"panic"} ELSE {"writefail", "ok"})

\* results of os.RemoveAll(r.root)
removeAll == {"ok", "fail"}

\* a successful fetch writes FETCH_HEAD
AfterFetchCache(c, res) == IF res = "ok" THEN "marked" ELSE c

AfterCloneCache(c, res) == IF res = "ok" THEN "repo" ELSE c

AfterRemoveCache(c, res) == IF res = "ok" THEN "absent" ELSE c

\* MkdirAll(root/remotes) creates root when it is missing
AfterAddRemoteCache(c, res) ==
    IF res # "mkdirfail" /\ c = "absent" THEN "dir" ELSE c

\* ------------------------------------------------------- sync procedure
\* a stat of a file name git never writes
StatErrWrongFile(c) == TRUE

\* _, err := os.Stat(filepath.Join(r.root, "FETCH_HEAD")), on a readable
\* cache directory: the error is that the file does not exist
StatErr(c) == c # "marked"

\* line 146: `if err != nil` after `fetch(r)` reads the err of os.Stat; the
\* value fetch returns is dropped
ProbeReuse(statErr, fetchRes, canReuse) == IF statErr THEN FALSE ELSE canReuse

\* a branch that clones over the old tree without removing it
ReuseBranchNoRemove(canReuse, probed) ==
    IF canReuse /\ ~probed THEN "probe"
    ELSE IF ~canReuse THEN "clone"
    ELSE "fetch"

\* a branch that goes straight to the fetch of line 158 on a found marker
ReuseBranchNoProbe(canReuse, probed) ==
    IF ~canReuse THEN "remove" ELSE "fetch"

\* line 143 / 152: which stage follows the stat and the probe
ReuseBranch(canReuse, probed) ==
    IF canReuse /\ ~probed THEN "probe"
    ELSE IF ~canReuse THEN "remove"
    ELSE "fetch"

\* line 153-154: os.RemoveAll(r.root) is followed by clone(r)
AfterRemove == "clone"

\* the tree removed after the clone instead of before it
AfterCloneRemoves == "remove"

\* the fetch placed in the else branch of the reuse test: skipped after a clone
AfterCloneSkipsFetch == IF flagMirror THEN "addRemote" ELSE "recv"

\* line 158: clone(r) is followed by the fetch outside the branch
AfterClone == "fetch"

\* the mirror stages run without the test of the flag
AfterFetchAlways(mirror) == "addRemote"

\* line 160: `if *flagMirror { addRemote(r); push(r) }`
AfterFetch(mirror) == IF mirror THEN "addRemote" ELSE "recv"

\* the stage that follows a returned stage (a panic ends the process)
AfterAddRemote(res) == IF res = "panic" THEN "panic" ELSE "push"

AfterPush(res) == IF res = "panic" THEN "panic" ELSE "recv"

\* the name taken as everything after the "@", the ":" split forgotten
PushNameNoColonSplit(dest) == Split(dest, "@")[2]

\* push, lines 233-237: the remote name handed to `git push --mirror --force`
PushName(dest) == Split(Split(dest, "@")[2], ":")[1]

\* the remote names git push was started with, after the stages evs of i
Pushed(i, evs) ==
    IF \E k \in DOMAIN evs : evs[k] = "push"
    THEN [pushed EXCEPT ![i] = @ \cup {PushName(repos[i].destination)}]
    ELSE pushed

\* the log records a failed stage prints that name the repository:
\* clone, fetch and push log `... on repo: r.name, err: ...` when Start or
\* Wait fails; the result of os.RemoveAll is dropped, addRemote returns
\* silently when MkdirAll fails and drops the result of WriteFile, and a
\* panic is not logged by the program
FailureLog(stage, res, name) ==
    IF stage \in {"probe", "clone", "fetch", "push"} /\ res = "fail"
    THEN {[stage |-> stage, repo |-> name]}
    ELSE {}

\* append stage names to the record of descriptor i; a body that ran to the
\* end of the loop is closed with "done"
Log(i, evs) == [hist EXCEPT ![i] = @ \o evs]

Ended(w2, evs) == IF w2.pc = "recv" THEN evs \o <<"done">> ELSE evs

\* the goroutine state after a stage: back at the range loop it drops r
Settle(w2) == IF w2.pc = "recv" THEN Idle ELSE w2

\* one stage of the loop body, lines 135-163, as a relation: the set of
\* [w, c, rem, ev, crash] a goroutine in state w can produce on cache c
StageResults(w, c, rem, dest, mirror) ==
    CASE w.pc = "stat" ->
           LET e  == StatErr(c)
               cr == ~e
           IN  {[w |-> [w EXCEPT !.err = e, !.canReuse = cr,
                                 !.pc = ReuseBranch(cr, FALSE), !.last = "ok"],
                 c |-> c, rem |-> rem, ev |-> "stat"]}
      [] w.pc = "probe" ->
           {[w |-> LET cr == ProbeReuse(w.err, res, w.canReuse)
                   IN  [w EXCEPT !.canReuse = cr, !.pc = ReuseBranch(cr, TRUE),
                                 !.last = res],
             c |-> AfterFetchCache(c, res), rem |-> rem, ev |-> "probe"]
            : res \in fetch(c)}
      [] w.pc = "remove" ->
           {[w |-> [w EXCEPT !.pc = AfterRemove, !.last = res],
             c |-> AfterRemoveCache(c, res),
             rem |-> IF res = "ok" THEN {} ELSE rem, ev |-> "remove"]
            : res \in removeAll}
      [] w.pc = "clone" ->
           {[w |-> [w EXCEPT !.pc = AfterClone, !.last = res],
             c |-> AfterCloneCache(c, res), rem |-> rem, ev |-> "clone"]
            : res \in clone(c)}
      [] w.pc = "fetch" ->
           {[w |-> [w EXCEPT !.pc = AfterFetch(mirror), !.last = res],
             c |-> AfterFetchCache(c, res), rem |-> rem, ev |-> "fetch"]
            : res \in fetch(c)}
      [] w.pc = "addRemote" ->
           {[w |-> [w EXCEPT !.pc = AfterAddRemote(res), !.last = res],
             c |-> AfterAddRemoteCache(c, res),
             rem |-> IF res = "ok"
                     THEN rem \cup {<<RemoteName(dest), RemoteFile(dest)>>}
                     ELSE rem,
             ev |-> "addRemote"]
            : res \in addRemote(dest)}
      [] w.pc = "push" ->
           {[w |-> [w EXCEPT !.pc = AfterPush(res), !.last = res],
             c |-> c, rem |-> rem,
             ev |-> IF res = "panic" THEN "pushname" ELSE "push"]
            : res \in push(c, dest)}
      [] OTHER -> {}

\* the effect of one stage result x of the goroutine w
Apply(w, x) ==
    /\ pool' = Replace(w, Settle(x.w))
    /\ cache' = CacheAfter(Root(w), x.c)
    /\ remotes' = RemotesAfter(Root(w), x.c, x.rem)
    /\ hist' = Log(w.r, Ended(x.w, <<x.ev>>))
    /\ pushed' = Pushed(w.r, <<x.ev>>)
    /\ status' = IF x.w.pc = "panic" THEN "crashed" ELSE status
    /\ UNCHANGED <<repos, flagMirror, start, idx, closed, mainPc>>

\* the results of the stage the goroutine w stands at
Results(w) ==
    StageResults(w, cache[Root(w)], remotes[Root(w)],
                 repos[w.r].destination, flagMirror)

\* a goroutine runs the stage it stands at
Step(w) ==
    /\ \E x \in Results(w) : Apply(w, x)
    /\ UNCHANGED <<cmds, runs>>

\* lines 135-141
Stat == Running /\ \E w \in Workers : w.pc = "stat" /\ Step(w)

\* lines 143-150
Probe == Running /\ \E w \in Workers : w.pc = "probe" /\ Step(w)

\* lines 152-153
Remove == Running /\ \E w \in Workers : w.pc = "remove" /\ Step(w)

\* line 154
Clone == Running /\ \E w \in Workers : w.pc = "clone" /\ Step(w)

\* line 158
Fetch == Running /\ \E w \in Workers : w.pc = "fetch" /\ Step(w)

\* lines 160-161
AddRemote == Running /\ \E w \in Workers : w.pc = "addRemote" /\ Step(w)

\* line 162
Push == Running /\ \E w \in Workers : w.pc = "push" /\ Step(w)

\* ------------------------------------------------------------ dispatcher
\* a goroutine that reads the descriptor of the previous iteration
RecvStale(w, i) == [w EXCEPT !.pc = "stat", !.r = IF i > 1 THEN i - 1 ELSE i]

\* `c <- r` meets `for r := range rc` in one goroutine: the channel is
\* unbuffered, so the send completes exactly when a goroutine receives
Recv(w, i) == [w EXCEPT !.pc = "stat", !.r = i]

Send ==
    /\ Running /\ mainPc = "send" /\ idx <= Len(repos)
    /\ \E w \in Workers :
         /\ w.pc = "recv"
         /\ pool' = Replace(w, Recv(w, idx))
    /\ hist' = Log(idx, <<"recv">>)
    /\ idx' = idx + 1
    /\ UNCHANGED <<repos, flagMirror, start, cmds, runs, pushed, cache, remotes, closed, mainPc, status>>

\* the channel closed one iteration early (`idx >= len`)
CloseEarly ==
    /\ Running /\ mainPc = "send" /\ idx >= Len(repos)
    /\ closed' = TRUE
    /\ mainPc' = "returned"
    /\ UNCHANGED <<repos, flagMirror, start, cmds, runs, pushed, cache, remotes, idx, status, pool, hist>>

\* close(c) is the last statement of initRepos, which then returns
Close ==
    /\ Running /\ mainPc = "send" /\ idx > Len(repos)
    /\ closed' = TRUE
    /\ mainPc' = "returned"
    /\ UNCHANGED <<repos, flagMirror, start, cmds, runs, pushed, cache, remotes, idx, status, pool, hist>>

\* main returns after initRepos: the process exits with its goroutines
Exit ==
    /\ Running /\ mainPc = "returned"
    /\ status' = "exited"
    /\ UNCHANGED <<repos, flagMirror, start, cmds, runs, pushed, cache, remotes, idx, closed, mainPc, pool, hist>>

\* `for r := range rc` ends on the closed channel
Finish ==
    /\ Running /\ closed
    /\ \E w \in Workers :
         /\ w.pc = "recv"
         /\ pool' = Replace(w, [w EXCEPT !.pc = "end"])
    /\ UNCHANGED <<repos, flagMirror, start, cmds, runs, pushed, cache, remotes, idx, closed, mainPc, status, hist>>

\* ------------------------------------------------------------------ runs
\* no subprocess: the goroutine is not inside clone, fetch or push
NoCmd == [child |-> "none", helper |-> FALSE, expired |-> FALSE]

\* the first run over a cache directory
FirstRun == [n |-> 1, good |-> {}, prev |-> {}]

\* the value of -cachedir
cacheDir == <<"c">>

\* names of a mappings file whose entries are all different plain names
PlainNames == <<"a", "b", "d", "e", "f", "g", "h", "i">>

\* main, lines 78-88: root = filepath.Join(cacheDir, r.Name)
NamedDescriptor(name, dest) ==
    [root |-> Join(cacheDir, name), name |-> name, destination |-> dest]

Descriptor(i, dest) == NamedDescriptor(<<PlainNames[i]>>, dest)

\* the state initRepos starts in, for the descriptors main built
InitRest(startCaches) ==
    /\ flagMirror \in BOOLEAN
    /\ cache \in [Roots -> startCaches]
    /\ start = [i \in DOMAIN repos |-> cache[repos[i].root] = "marked"]
    /\ remotes = [q \in Roots |-> {}]
    /\ idx = 1
    /\ closed = FALSE
    /\ mainPc = "send"
    /\ status = "running"
    /\ pool = Spawned
    /\ hist = [i \in DOMAIN repos |-> <<>>]
    /\ pushed = [i \in DOMAIN repos |-> {}]
    /\ cmds = [i \in DOMAIN repos |-> NoCmd]
    /\ runs = FirstRun

InitRun(n, startCaches, dests) ==
    /\ \E ds \in [1..n -> dests] : repos = [i \in 1..n |-> Descriptor(i, ds[i])]
    /\ InitRest(startCaches)

\* a run starts on an empty cache directory or on what earlier runs left: a
\* mirror that was cloned but never fetched, or a fetched mirror
StartCaches == {"absent", "repo", "marked"}

Init == \E n \in 0..MaxRepos : InitRun(n, StartCaches, Dests)

\* the procedure stage by stage; the end of the range loop, which changes
\* nothing a stage reads, is followed in NextPool
Next ==
    \/ Send
    \/ Close
    \/ Exit
    \/ Stat
    \/ Probe
    \/ Remove
    \/ Clone
    \/ Fetch
    \/ AddRemote
    \/ Push

Spec == Init /\ [][Next]_vars

\* --------------------------------------------------------- pool-level run
\* the whole loop body, lines 135-163, run from the stat to the end of the
\* body or to a panic: every result the stages can produce in sequence
RECURSIVE Body(_, _, _, _, _, _)
Body(w, c, rem, dest, mirror, evs) ==
    IF w.pc \in {"recv", "panic"}
    THEN {[w |-> w, c |-> c, rem |-> rem, evs |-> evs]}
    ELSE UNION {Body(x.w, x.c, x.rem, dest, mirror, Append(evs, x.ev))
                : x \in StageResults(w, c, rem, dest, mirror)}

\* a goroutine runs the body for the descriptor it received, as one step
Sync ==
    /\ Running
    /\ \E w \in Workers :
         /\ w.pc = "stat"
         /\ \E x \in Body(w, cache[Root(w)], remotes[Root(w)],
                          repos[w.r].destination, flagMirror, <<>>) :
              /\ pool' = Replace(w, Settle(x.w))
              /\ cache' = CacheAfter(Root(w), x.c)
              /\ remotes' = RemotesAfter(Root(w), x.c, x.rem)
              /\ hist' = Log(w.r, Ended(x.w, x.evs))
              /\ pushed' = Pushed(w.r, x.evs)
              /\ status' = IF x.w.pc = "panic" THEN "crashed" ELSE status
    /\ UNCHANGED <<repos, flagMirror, start, cmds, runs, idx, closed, mainPc>>

\* runs of up to MaxPoolRepos descriptors on a fresh cache directory
\* (createCacheDir with an empty -cachedir), mirroring off
InitPool ==
    /\ \E n \in 0..MaxPoolRepos : InitRun(n, {"absent"}, {GoodDest})
    /\ flagMirror = FALSE

NextPool ==
    \/ Send
    \/ Close
    \/ Exit
    \/ Finish
    \/ Sync

SpecPool == InitPool /\ [][NextPool]_vars

\* ---------------------------------------------------------------- claims
Descs == DOMAIN repos

Count(h, e) == Cardinality({k \in DOMAIN h : h[k] = e})

Has(h, e) == \E k \in DOMAIN h : h[k] = e

\* position of the first e in h, 0 when h holds none
Pos(h, e) ==
    IF \E k \in 1..Len(h) : h[k] = e
    THEN CHOOSE k \in 1..Len(h) : h[k] = e /\ \A j \in 1..(k - 1) : h[j] # e
    ELSE 0

LastOf(h) == IF Len(h) = 0 THEN "none" ELSE h[Len(h)]

Received(i) == Has(hist[i], "recv")

Done(i) == Has(hist[i], "done")

\* the goroutines that hold descriptor i
HoldersOf(i) == {w \in Workers : w.r = i}

Holders(i) == BagCardinality([w \in HoldersOf(i) |-> CopiesIn(w, pool)])

\* the goroutines inside the loop body
Busy == {w \in Workers : w.pc \notin {"recv", "end"}}

Executing == BagCardinality([w \in Busy |-> CopiesIn(w, pool)])

InProgress == {i \in Descs : Received(i) /\ ~Done(i)}

Failure == {"fail", "mkdirfail", "writefail", "panic"}

\* the place of a stage in the order of the procedure
Rank(e) ==
    CASE e = "recv" -> 0
      [] e = "stat" -> 1
      [] e = "probe" -> 2
      [] e = "remove" -> 3
      [] e = "clone" -> 4
      [] e = "fetch" -> 5
      [] e = "addRemote" -> 6
      [] e \in {"push", "pushname"} -> 7
      [] e = "done" -> 8
      [] e = "panic" -> 8
      [] OTHER -> 9

\* C1: whenever initRepos has returned, the procedure of every descriptor
\* has run to its end.
C1_ReturnsAfterAllDone ==
    mainPc = "returned" => \A i \in Descs : Done(i)

C3_FailureIsolated ==
    status = "crashed" => \A w \in Workers : w.pc \in {"panic", "recv", "end"}

\* C4: when FETCH_HEAD exists and the probe fetch fails, canReuse becomes
\* false and the procedure goes on to delete localRoot and clone.
C4_ProbeFailureDemotes ==
    \A w \in Workers :
        (w.r # 0 /\ LastOf(hist[w.r]) = "probe" /\ w.last = "fail")
            => (~w.canReuse /\ w.pc = "remove")

\* C5: when FETCH_HEAD is absent at the start, the procedure runs no probe
\* fetch and runs RemoveAll, then clone, then the final fetch, in that order.
C5_AbsentMarkerDeletesThenClones ==
    \A i \in Descs :
        ~start[i] =>
            /\ ~Has(hist[i], "probe")
            /\ \A k \in 1..Len(hist[i]) :
                 k <= 5 => hist[i][k] = <<"recv", "stat", "remove", "clone", "fetch">>[k]

\* a procedure that began without the marker and has run its final fetch
C5_Witness ==
    \E i \in Descs :
        /\ ~start[i]
        /\ Len(hist[i]) >= 5
        /\ hist[i][3] = "remove" /\ hist[i][4] = "clone" /\ hist[i][5] = "fetch"

\* C6: at every moment at most max = 5 procedures are executing.
C6_AtMostMaxExecuting ==
    /\ Executing <= max
    /\ Cardinality(InProgress) <= max

\* five procedures executing at once while a sixth descriptor waits
C6_Witness ==
    /\ Executing = max
    /\ Cardinality(InProgress) = max
    /\ idx <= Len(repos)

\* C7: no stage failure skips a later stage: after a stage has failed the
\* goroutine stands at the stage that follows it in the procedure (the
\* final fetch after a clone, addRemote after the fetch when mirroring,
\* push after addRemote).
C7_ContinueOnError ==
    \A w \in Workers :
        (w.r # 0 /\ w.last \in Failure) =>
            LET e == LastOf(hist[w.r])
            IN  /\ e = "remove" => w.pc = "clone"
                /\ e = "clone" => w.pc = "fetch"
                /\ e = "fetch" => w.pc = "addRemote"
                /\ e = "addRemote" => w.pc = "push"

\* C8: with mirroring disabled no addRemote and no push is ever run and no
\* registration file or remotes directory is written.
C8_NoMirrorNoPush ==
    ~flagMirror =>
        /\ \A i \in Descs :
             /\ ~Has(hist[i], "addRemote")
             /\ ~Has(hist[i], "push")
             /\ ~Has(hist[i], "pushname")
             /\ remotes[repos[i].root] = {}
             /\ cache[repos[i].root] # "dir"
        /\ \A w \in Workers : w.pc \notin {"addRemote", "push", "panic"}

\* a procedure that ran to its end with mirroring disabled
C8_Witness ==
    /\ ~flagMirror
    /\ \E i \in Descs : Done(i) /\ Count(hist[i], "fetch") = 1

\* C9: the stages of one descriptor run one after another in the order
\* stat, probe, remove, clone, fetch, addRemote, push: each stage recorded
\* comes later in that order than the one before it, the descriptor is held
\* by one goroutine, and the stage that goroutine stands at comes after
\* every stage already run.
C9_StagesInOrder ==
    /\ \A i \in Descs :
         /\ \A k \in 1..(Len(hist[i]) - 1) : Rank(hist[i][k]) < Rank(hist[i][k + 1])
         /\ Holders(i) <= 1
    /\ \A w \in Workers :
         w.r # 0 => Rank(LastOf(hist[w.r])) < Rank(w.pc)

\* two descriptors in the middle of their procedures at the same time
C9_Witness ==
    \E v, w \in Workers :
        /\ v.r # 0 /\ w.r # 0 /\ v.r # w.r
        /\ v.pc = "fetch" /\ w.pc = "push"
        /\ Count(hist[v.r], "clone") = 1
        /\ Count(hist[w.r], "probe") = 1

\* C10: the final fetch is never skipped: it has run before addRemote or
\* push runs or the procedure ends, and it runs after the probe and after
\* the clone.
C10_FinalFetchAlways ==
    /\ \A i \in Descs :
         LET h == hist[i]
         IN  \A k \in DOMAIN h :
                 /\ h[k] \in {"addRemote", "push", "pushname", "done"}
                      => \E j \in 1..(k - 1) : h[j] = "fetch"
                 /\ h[k] = "fetch"
                      => \A j \in (k + 1)..Len(h) :
                             h[j] \notin {"stat", "probe", "remove", "clone", "fetch"}
    /\ \A w \in Workers :
         w.pc \in {"addRemote", "push"} => Has(hist[w.r], "fetch")

\* a procedure whose clone failed and that has gone through the final fetch
\* to the push
C10_Witness ==
    \E w \in Workers :
        /\ w.pc = "push"
        /\ Count(hist[w.r], "clone") = 1
        /\ Count(hist[w.r], "fetch") = 1
        /\ cache[Root(w)] \in {"absent", "dir"}

\* C12: every failed stage prints a log record that names the repository.
C12_FailuresLogged ==
    \A w \in Workers :
        (w.r # 0 /\ w.last \in Failure) =>
            \E l \in FailureLog(LastOf(hist[w.r]), w.last, repos[w.r].name) :
                l.repo = repos[w.r].name

\* ------------------------------------------------- one mirrored repository
NoColonDest == <<"u", "@", "h">>
TwoAtDest == <<"a", "@", "b", "@", "c", ":", "d">>
\* destinations with an "@": the scenario is one that runs to its end
ScenarioDests == {GoodDest, NoColonDest, TwoAtDest}

\* the token between the first "@" and the next ":" of each destination
ExpectedName ==
    [d \in ScenarioDests |->
        CASE d = GoodDest -> <<"b">>
          [] d = NoColonDest -> <<"h">>
          [] d = TwoAtDest -> <<"b">>]

\* runs with -mirror on an empty cache directory
InitScenario ==
    /\ \E n \in 1..MaxRepos : InitRun(n, {"absent"}, ScenarioDests)
    /\ flagMirror = TRUE

\* on a fresh cache directory the stat finds no FETCH_HEAD, so the probe of
\* lines 143-150 is never reached
NextScenario ==
    \/ Send
    \/ Close
    \/ Exit
    \/ Stat
    \/ Remove
    \/ Clone
    \/ Fetch
    \/ AddRemote
    \/ Push

SpecScenario == InitScenario /\ [][NextScenario]_vars

\* C13: with mirroring on and an empty cache the stages of a repository
\* are clone, fetch, addRemote, push in that order; the registration file
\* is named by the token between "@" and ":" of the destination, git push
\* is given the same token, and the file holds the URL line and the two
\* push refspecs.
C13_MirrorScenario ==
    \A i \in Descs :
        LET d == repos[i].destination
        IN  /\ Done(i) =>
                 hist[i] = <<"recv", "stat", "remove", "clone", "fetch",
                             "addRemote", "push", "done">>
            /\ \A f \in remotes[repos[i].root] :
                 /\ f[1] = ExpectedName[d]
                 /\ f[2] = <<"URL: ", d, "\n",
                             "Push: +refs/heads/*:refs/heads/*\n",
                             "Push: +refs/tags/*:refs/tags/*\n">>
            /\ \A nm \in pushed[i] : nm = ExpectedName[d]
            /\ Cardinality(remotes[repos[i].root]) <= 1
            /\ Cardinality(pushed[i]) <= 1

\* a repository cloned, fetched, registered and pushed
C13_Witness ==
    \E i \in Descs :
        /\ Done(i)
        /\ cache[repos[i].root] = "marked"
        /\ remotes[repos[i].root] # {}
        /\ pushed[i] = {<<"b">>}
        /\ repos[i].destination = TwoAtDest

\* C17: when FETCH_HEAD is there, fetch runs once as the probe and once
\* more at line 158; a body that goes into the final fetch with canReuse
\* still true has run the probe and neither RemoveAll nor clone.
C17_ReuseFetchesTwice ==
    /\ \A i \in Descs :
         start[i] =>
            /\ Count(hist[i], "probe") <= 1
            /\ Count(hist[i], "fetch") <= 1
            /\ Has(hist[i], "fetch") => Has(hist[i], "probe")
            /\ Done(i) => Count(hist[i], "probe") + Count(hist[i], "fetch") = 2
    /\ \A w \in Workers :
         (w.pc = "fetch" /\ w.canReuse) => hist[w.r] = <<"recv", "stat", "probe">>
    /\ \A i \in Descs :
         (Done(i) /\ Has(hist[i], "probe") /\ ~Has(hist[i], "remove")) =>
            /\ ~Has(hist[i], "clone")
            /\ Count(hist[i], "probe") + Count(hist[i], "fetch") = 2

\* a reused cache: two fetches, no RemoveAll, no clone
C17_Witness ==
    \E i \in Descs :
        /\ start[i] /\ Done(i)
        /\ Count(hist[i], "probe") = 1 /\ Count(hist[i], "fetch") = 1
        /\ ~Has(hist[i], "remove") /\ ~Has(hist[i], "clone")

Min(a, b) == IF a < b THEN a ELSE b

\* C15: after the close every goroutine finishes the descriptor it holds
\* and leaves its loop: the process never ends while a goroutine still
\* holds a descriptor.
C15_WorkersFinishAfterClose ==
    status = "exited" => \A w \in Workers : w.r = 0

\* C19: once the last descriptor is sent and the channel closed, every
\* descriptor has been received and at most min(N, 5) procedures have not
\* reached their end.
C19_HandOffBound ==
    (closed \/ idx > Len(repos)) =>
        /\ \A i \in Descs : Received(i)
        /\ Cardinality(InProgress) <= Min(Len(repos), max)
        /\ Cardinality(InProgress) + Cardinality({i \in Descs : Done(i)}) = Len(repos)

\* the channel closed with six descriptors handed off and five still running
C19_Witness ==
    /\ closed
    /\ Len(repos) > max
    /\ Cardinality(InProgress) = max

\* ------------------------------------------------- runs over one cache
MaxRuns == 2

\* the final fetch, with a note of the descriptors whose clone succeeded and
\* whose fetch right after it succeeded in this run
FetchNoted ==
    /\ Running
    /\ \E w \in Workers :
         /\ w.pc = "fetch"
         /\ \E x \in Results(w) :
              /\ Apply(w, x)
              /\ runs' = [runs EXCEPT !.good =
                            IF /\ LastOf(hist[w.r]) = "clone"
                               /\ w.last = "ok"
                               /\ x.w.last = "ok"
                            THEN @ \cup {w.r} ELSE @]
    /\ UNCHANGED cmds

\* the program is started again with the same -cachedir and the same
\* mappings file after the process of the earlier run has ended
NewRun ==
    /\ status # "running"
    /\ runs.n < MaxRuns
    /\ runs' = [n |-> runs.n + 1, good |-> {}, prev |-> runs.good]
    /\ start' = [i \in Descs |-> cache[repos[i].root] = "marked"]
    /\ idx' = 1
    /\ closed' = FALSE
    /\ mainPc' = "send"
    /\ status' = "running"
    /\ pool' = Spawned
    /\ hist' = [i \in Descs |-> <<>>]
    /\ pushed' = [i \in Descs |-> {}]
    /\ UNCHANGED <<repos, flagMirror, cache, remotes, cmds>>

InitRuns == InitRun(1, StartCaches, {GoodDest})

NextRuns ==
    \/ Send
    \/ Close
    \/ Exit
    \/ Stat
    \/ Probe
    \/ Remove
    \/ Clone
    \/ FetchNoted
    \/ AddRemote
    \/ Push
    \/ NewRun

SpecRuns == InitRuns /\ [][NextRuns]_vars

\* C14: a repository whose clone and following fetch succeeded in one run
\* is found with its marker in the next run over the same cache, is judged
\* reusable, and is neither deleted nor cloned.
C14_IdempotentAcrossRuns ==
    \A i \in Descs :
        i \in runs.prev =>
            /\ start[i]
            /\ ~Has(hist[i], "remove")
            /\ ~Has(hist[i], "clone")
            /\ \A w \in Workers :
                 (w.r = i /\ w.pc # "stat") => (w.canReuse /\ ~w.err)

\* the next run has gone through the body of such a repository
C14_Witness ==
    \E i \in Descs :
        /\ i \in runs.prev
        /\ Done(i)
        /\ Has(hist[i], "probe")
        /\ Has(hist[i], "fetch")

\* ------------------------------------------- names of the mappings file
\* names a mappings file can hold: a, b, ./a, a/b and b/../a
NameChoices ==
    {<<"a">>, <<"b">>, <<".", "/", "a">>, <<"a", "/", "b">>,
     <<"b", "/", ".", ".", "/", "a">>}

\* runs over a mappings file of MaxRepos entries with any of these names;
\* the cache directory is fresh or holds fetched mirrors
InitNames ==
    /\ \E names \in [1..MaxRepos -> NameChoices] :
         repos = [i \in 1..MaxRepos |-> NamedDescriptor(names[i], GoodDest)]
    /\ InitRest({"absent", "marked"})
    /\ \A p \in Roots, q \in Roots :
         (Within(p, q) /\ cache[p] = "absent") => cache[q] = "absent"

SpecNames == InitNames /\ [][Next]_vars

\* C16: no two goroutines hold at the same time descriptors whose
\* localRoots are the same tree or lie one inside the other (which distinct
\* localRoots per descriptor would take care of for equal trees).
C16_CachePartitioned ==
    \A w1 \in Workers, w2 \in Workers :
        (w1.r # 0 /\ w2.r # 0 /\ w1.r # w2.r) =>
            ~Overlap(Root(w1), Root(w2))

\* ------------------------------------------------------- subprocesses
\* cmds[i] is the subprocess of the stage in progress for descriptor i:
\*   child    "none"     clone, fetch or push is not between Start and Wait
\*            "running"  the git process started by cmd.Start
\*            "exited"   git ended by itself
\*            "killed"   the context expired and os.Process.Kill hit git
\*   helper   a process git itself started (ssh, a remote helper) is alive
\*   expired  a context of this descriptor has expired
SubprocessStages == {"probe", "clone", "fetch", "push"}

\* push derives the remote name (and may panic); then cmd.Start: when it
\* fails the function logs and ends with a failure (clone and push go on to
\* cmd.Wait, which fails at once on a command that never started)
CmdStart ==
    /\ Running
    /\ \E w \in Workers :
         /\ w.pc \in SubprocessStages
         /\ cmds[w.r].child = "none"
         /\ \/ /\ ~(w.pc = "push" /\ NamePanics(repos[w.r].destination))
               /\ cmds' = [cmds EXCEPT ![w.r].child = "running"]
               /\ UNCHANGED <<repos, flagMirror, start, cache, remotes, idx,
                              closed, mainPc, status, pool, hist, pushed>>
            \/ /\ \E x \in Results(w) :
                    /\ x.w.last \in {"fail", "panic"}
                    /\ Apply(w, x)
               /\ UNCHANGED cmds
    /\ UNCHANGED runs

\* git starts its transport: ssh or a remote helper, a child of git
HelperSpawn ==
    /\ \E i \in Descs :
         /\ cmds[i].child = "running"
         /\ ~cmds[i].helper
         /\ cmds' = [cmds EXCEPT ![i].helper = TRUE]
    /\ UNCHANGED <<repos, flagMirror, start, cache, remotes, idx, closed,
                   mainPc, status, pool, hist, pushed, runs>>

\* the transport ends
HelperExit ==
    /\ \E i \in Descs :
         /\ cmds[i].helper
         /\ cmds' = [cmds EXCEPT ![i].helper = FALSE]
    /\ UNCHANGED <<repos, flagMirror, start, cache, remotes, idx, closed,
                   mainPc, status, pool, hist, pushed, runs>>

\* git ends by itself, after its transport
ChildExits ==
    /\ \E i \in Descs :
         /\ cmds[i].child = "running"
         /\ ~cmds[i].helper
         /\ cmds' = [cmds EXCEPT ![i].child = "exited"]
    /\ UNCHANGED <<repos, flagMirror, start, cache, remotes, idx, closed,
                   mainPc, status, pool, hist, pushed, runs>>

\* context.WithTimeout(.., 30*time.Second) expires: exec.CommandContext
\* calls os.Process.Kill on the process it started, and on nothing else
\* (no SysProcAttr, no process group)
Timeout ==
    /\ Running
    /\ \E i \in Descs :
         /\ cmds[i].child = "running"
         /\ cmds' = [cmds EXCEPT ![i].child = "killed", ![i].expired = TRUE]
    /\ UNCHANGED <<repos, flagMirror, start, cache, remotes, idx, closed,
                   mainPc, status, pool, hist, pushed, runs>>

\* cmd.Wait returns: the exit status of git, or "signal: killed"
WaitReturn ==
    /\ Running
    /\ \E w \in Workers :
         /\ w.pc \in SubprocessStages
         /\ cmds[w.r].child \in {"exited", "killed"}
         /\ \E x \in Results(w) :
              /\ x.w.last \in {"ok", "fail"}
              /\ cmds[w.r].child = "killed" => x.w.last = "fail"
              /\ Apply(w, x)
         /\ cmds' = [cmds EXCEPT ![w.r].child = "none"]
    /\ UNCHANGED runs

InitRunner == \E n \in 1..MaxRepos : InitRun(n, {"absent", "marked"}, Dests)

NextRunner ==
    \/ Send
    \/ Close
    \/ Exit
    \/ Stat
    \/ Remove
    \/ AddRemote
    \/ CmdStart
    \/ HelperSpawn
    \/ HelperExit
    \/ ChildExits
    \/ Timeout
    \/ WaitReturn

SpecRunner == InitRunner /\ [][NextRunner]_vars

\* C11: after a subprocess of a descriptor ran into its timeout and was
\* terminated, the goroutine goes on with the remaining stages: the process
\* never ends with the procedure of that descriptor unfinished.
C11_TimedOutWorkerContinues ==
    \A i \in Descs :
        (cmds[i].expired /\ status # "running") => Done(i)

\* C18: once clone, fetch or push has returned, no process started on
\* behalf of that invocation is still running.
C18_NoProcessLeftAfterReturn ==
    \A i \in Descs :
        cmds[i].child = "none" => ~cmds[i].helper

====
